---- MODULE Spec2Model ----
(***************************************************************************)
(* A model of the crate inspect-error (src/src/lib.rs): the extension      *)
(* method Result::inspect_error, the closures its tests and its doc test   *)
(* hand to it, and the callers that appear in the source (the two unit     *)
(* tests, which bind the returned Result, and read_magic_number_from_db,   *)
(* which applies `?` to it).                                               *)
(*                                                                         *)
(* One call of inspect_error is executed line by line:                     *)
(*   L73  if let Err(ref error) = self {                                   *)
(*   L74      (inspect)(error);                                            *)
(*        }                                                                *)
(*   L77  self                                                             *)
(* and the caller runs a bounded sequence of such calls.                   *)
(***************************************************************************)
EXTENDS Integers, Sequences, FiniteSets, TLC

\* Payloads of both variants are the integers 0..MaxPayload.
MaxPayload == 1

\* The caller makes at most MaxCalls calls of inspect_error.
MaxCalls == 2

Payloads == 0 .. MaxPayload

\* Result<T, E>: exactly one of the two variants, with its payload.
Ok(t) == [tag |-> "Ok", val |-> t]

Err(e) == [tag |-> "Err", val |-> e]

Outcomes == {Ok(t) : t \in Payloads} \cup {Err(e) : e \in Payloads}

\* Option<X> as a sequence of length 0 or 1.
None == <<>>

Some(v) == <<v>>

\* The closures handed to inspect_error:
\*   "record"   |magic_error_code| { output = Some(*magic_error_code); }
\*   "noop"     |_| ()
\*   "eprintln" |err| eprintln!("Something went wrong: '{err}'.")
\*   "panic"    a caller's closure that panics when it is called
Callbacks == {"record", "noop", "eprintln", "panic"}

\* The two kinds of caller in the source: a test that binds the returned
\* Result, and read_magic_number_from_db, which applies `?` to it.
Callers == {"test", "read_magic_number_from_db"}

VARIABLES
    pc,            \* where the program is: "caller", "L73", "L74", "L77",
                   \* "returned", "L66" or "panicked"
    self,          \* inspect_error's receiver
    inspect,       \* inspect_error's closure argument ("moved" once called)
    error,         \* the `ref error` binding of line 73 (None outside it)
    result,        \* what inspect_error handed back to its caller, if anything
    output,        \* the variable the "record" closure captures
    stderr,        \* what the "eprintln" closure has printed
    magic_number,  \* read_magic_number_from_db's local
    cur,           \* the call in progress: its input, closure, caller, ...
    history,       \* one record per call that has ended
    events         \* the order in which calls, closure runs and returns happened

vars == <<pc, self, inspect, error, result, output, stderr, magic_number,
          cur, history, events>>

NoCall == [k |-> 0]

\* The number of the call in progress (1, 2, ...).
CallNo == Len(history) + 1

Event(ev) == [ev |-> ev, k |-> CallNo]

----------------------------------------------------------------------------
\* The pieces of inspect_error and of its callers, as pure operators.

\* A mutant of IfLetErr: the pattern binds the payload of either variant.
IfLetAny(r) == Some(r.val)

\* A mutant of IfLetErr: the pattern tests the wrong variant.
IfLetOk(r) == IF r.tag = "Ok" THEN Some(r.val) ELSE None

\* A mutant of IfLetErr: the pattern never matches.
IfLetNever(r) == None

\* Line 73, `if let Err(ref error) = self`: the binding, if the pattern matches.
IfLetErr(r) == IF r.tag = "Err" THEN Some(r.val) ELSE None

\* A mutant of CallClosure: the closure is handed a different error value.
CallClosureOtherArg(kind, arg, out, err) ==
    [panicked |-> kind = "panic",
     received |-> (arg + 1) % (MaxPayload + 1),
     output   |-> IF kind = "record" THEN Some((arg + 1) % (MaxPayload + 1)) ELSE out,
     stderr   |-> IF kind = "eprintln"
                  THEN Append(err, (arg + 1) % (MaxPayload + 1)) ELSE err]

\* Line 74, `(inspect)(error)`: what running the closure `kind` on the
\* referenced error `arg` does to the state it captures.
CallClosure(kind, arg, out, err) ==
    [panicked |-> kind = "panic",
     received |-> arg,
     output   |-> IF kind = "record" THEN Some(arg) ELSE out,
     stderr   |-> IF kind = "eprintln" THEN Append(err, arg) ELSE err]

\* A mutant of AfterClosure: the panic is caught and the function goes on.
AfterClosureCaught(panicked) == "L77"

\* Line 74 has no catch_unwind around the call: a panic of the closure
\* unwinds out of inspect_error, otherwise control reaches line 77.
AfterClosure(panicked) == IF panicked THEN "panicked" ELSE "L77"

\* A mutant of ReturnValue: the error is swallowed into a success.
ReturnValueOk(r) == Ok(r.val)

\* A mutant of ReturnValue: the payload is not the one that came in.
ReturnValueOther(r) == [r EXCEPT !.val = (r.val + 1) % (MaxPayload + 1)]

\* Line 77, `self`: the value the function evaluates to.
ReturnValue(r) == r

\* A mutant of From: the conversion of `?` changes the error.
FromOther(e) == (e + 1) % (MaxPayload + 1)

\* The reflexive `impl<T> From<T> for T` that `?` applies when the error
\* type of the function is the error type of the Result (lines 59-62).
From(e) == e

\* Line 62, the `?` operator: continue with the success payload, or leave
\* the enclosing function with Err(From::from(e)).
Question(r) ==
    IF r.tag = "Ok"
    THEN [branch |-> "continue", val |-> r.val]
    ELSE [branch |-> "return", val |-> Err(From(r.val))]

----------------------------------------------------------------------------
\* The state machine.

Init ==
    /\ pc = "caller"
    /\ self = None
    /\ inspect = "none"
    /\ error = None
    /\ result = None
    /\ output = None
    /\ stderr = <<>>
    /\ magic_number = None
    /\ cur = NoCall
    /\ history = <<>>
    /\ events = <<>>

\* The record of the call in progress, as it ends.
Ended(res, fnret, out, err, ran, got) ==
    [input    |-> cur.input,
     cb       |-> cur.cb,
     caller   |-> cur.caller,
     chained  |-> cur.chained,
     out0     |-> cur.out0,
     err0     |-> cur.err0,
     result   |-> res,
     fnret    |-> fnret,
     out1     |-> out,
     err1     |-> err,
     invoked  |-> ran,
     args     |-> got]

\* A mutant of Enter: the receiver is cached by the first call and reused
\* by the later ones.
EnterShared(input, cb, caller, chained) ==
    /\ pc = "caller"
    /\ Len(history) < MaxCalls
    /\ pc' = "L73"
    /\ self' = IF history = <<>> THEN Some(input) ELSE Some(history[1].input)
    /\ inspect' = cb
    /\ error' = None
    /\ result' = None
    /\ magic_number' = None
    /\ cur' = [k |-> CallNo, input |-> input, cb |-> cb, caller |-> caller,
               chained |-> chained, out0 |-> output, err0 |-> stderr,
               invoked |-> 0, args |-> <<>>]
    /\ events' = Append(events, Event("call"))
    /\ UNCHANGED <<output, stderr, history>>

\* Line 72: the caller moves a Result and a closure into inspect_error.
Enter(input, cb, caller, chained) ==
    /\ pc = "caller"
    /\ Len(history) < MaxCalls
    /\ pc' = "L73"
    /\ self' = Some(input)
    /\ inspect' = cb
    /\ error' = None
    /\ result' = None
    /\ magic_number' = None
    /\ cur' = [k |-> CallNo, input |-> input, cb |-> cb, caller |-> caller,
               chained |-> chained, out0 |-> output, err0 |-> stderr,
               invoked |-> 0, args |-> <<>>]
    /\ events' = Append(events, Event("call"))
    /\ UNCHANGED <<output, stderr, history>>

\* A caller calls inspect_error on some Result with some closure
\* (lines 61-62, 90-93, 101).
Call ==
    \E input \in Outcomes, cb \in Callbacks, caller \in Callers :
        Enter(input, cb, caller, FALSE)

\* A caller feeds the Result the previous call returned into a further call,
\* with the same closure logic.
CallAgain ==
    /\ history # <<>>
    /\ history[Len(history)].result # None
    /\ \E caller \in Callers :
        Enter(history[Len(history)].result[1], history[Len(history)].cb,
              caller, TRUE)

\* Line 73: `if let Err(ref error) = self`.
Match ==
    /\ pc = "L73"
    /\ error' = IfLetErr(self[1])
    /\ pc' = IF error' # None THEN "L74" ELSE "L77"
    /\ UNCHANGED <<self, inspect, result, output, stderr, magic_number,
                   cur, history, events>>

\* Line 74: `(inspect)(error);`. The closure is FnOnce: calling it moves it.
\* A panic of the closure unwinds through inspect_error and its caller.
Invoke ==
    /\ pc = "L74"
    /\ LET r == CallClosure(inspect, error[1], output, stderr)
           ran == cur.invoked + 1
           got == Append(cur.args, r.received)
       IN /\ output' = r.output
          /\ stderr' = r.stderr
          /\ cur' = [cur EXCEPT !.invoked = ran, !.args = got]
          /\ pc' = AfterClosure(r.panicked)
          /\ events' = Append(events, Event(IF r.panicked THEN "panic" ELSE "cb"))
          /\ history' = IF pc' = "panicked"
                        THEN Append(history,
                                    Ended(None, None, r.output, r.stderr, ran, got))
                        ELSE history
    /\ inspect' = "moved"
    /\ error' = None
    /\ UNCHANGED <<self, result, magic_number>>

\* Line 77: `self` is moved out to the caller.
Return ==
    /\ pc = "L77"
    /\ result' = Some(ReturnValue(self[1]))
    /\ self' = None
    /\ error' = None
    /\ pc' = "returned"
    /\ events' = Append(events, Event("ret"))
    /\ UNCHANGED <<inspect, output, stderr, magic_number, cur, history>>

\* Lines 90 and 101: a test binds the returned Result.
Bind ==
    /\ pc = "returned"
    /\ cur.caller = "test"
    /\ history' = Append(history,
                         Ended(result, None, output, stderr, cur.invoked, cur.args))
    /\ pc' = "caller"
    /\ UNCHANGED <<self, inspect, error, result, output, stderr, magic_number,
                   cur, events>>

\* Line 62: read_magic_number_from_db applies `?` to the returned Result.
Try ==
    /\ pc = "returned"
    /\ cur.caller = "read_magic_number_from_db"
    /\ LET q == Question(result[1])
       IN IF q.branch = "continue"
          THEN /\ magic_number' = Some(q.val)
               /\ pc' = "L66"
               /\ UNCHANGED history
          ELSE /\ magic_number' = None
               /\ pc' = "caller"
               /\ history' = Append(history,
                                    Ended(result, Some(q.val), output, stderr,
                                          cur.invoked, cur.args))
    /\ UNCHANGED <<self, inspect, error, result, output, stderr, cur, events>>

\* Line 66: `Ok(magic_number)`.
OkMagic ==
    /\ pc = "L66"
    /\ history' = Append(history,
                         Ended(result, Some(Ok(magic_number[1])), output, stderr,
                               cur.invoked, cur.args))
    /\ pc' = "caller"
    /\ UNCHANGED <<self, inspect, error, result, output, stderr, magic_number,
                   cur, events>>

Next ==
    \/ Call
    \/ CallAgain
    \/ Match
    \/ Invoke
    \/ Return
    \/ Bind
    \/ Try
    \/ OkMagic

Spec == Init /\ [][Next]_vars

----------------------------------------------------------------------------
\* The properties.

\* The calls that have ended.
Calls == 1 .. Len(history)

\* inspect_error is executing (lines 73-77) or has just returned.
InCall == pc \in {"L73", "L74", "L77", "returned", "L66"}

\* The input of call k, ended or in progress.
InputOf(k) == IF k <= Len(history) THEN history[k].input ELSE cur.input

\* The events of the given kinds that belong to call k.
EventsOf(k, kinds) ==
    {j \in DOMAIN events : events[j].k = k /\ events[j].ev \in kinds}

\* C1: a call on Err(e) with a closure that does not panic runs the closure
\* exactly once, and the closure receives e. Before line 74 the closure has
\* not run; from line 77 on it has run once.
C1_ClosureCalledOnceWithError ==
    /\ \A i \in Calls :
         (history[i].input.tag = "Err" /\ history[i].cb # "panic")
            => /\ history[i].invoked = 1
               /\ history[i].args = <<history[i].input.val>>
    /\ (InCall /\ cur.input.tag = "Err" /\ cur.cb # "panic")
         => IF pc \in {"L73", "L74"}
            THEN cur.invoked = 0 /\ cur.args = <<>>
            ELSE cur.invoked = 1 /\ cur.args = <<cur.input.val>>

C1_Witness ==
    \E i \in Calls :
        /\ history[i].input = Err(1)
        /\ history[i].cb = "record"
        /\ history[i].invoked = 1
        /\ history[i].args = <<1>>
        /\ history[i].out1 = Some(1)

\* C2: a call on Ok(t) never runs the closure, whatever the closure is (also
\* one that would panic), and returns Ok(t): it never reaches line 74, never
\* unwinds, and ends with the input as its result.
C2_OkNeverCallsClosure ==
    /\ \A i \in Calls :
         history[i].input.tag = "Ok"
            => /\ history[i].invoked = 0
               /\ history[i].args = <<>>
               /\ history[i].result = Some(history[i].input)
    /\ (InCall /\ cur.input.tag = "Ok")
         => /\ pc # "L74"
            /\ cur.invoked = 0
            /\ EventsOf(cur.k, {"cb", "panic"}) = {}
    /\ pc = "panicked" => history[Len(history)].input.tag # "Ok"

C2_Witness ==
    \E i \in Calls :
        /\ history[i].input = Ok(1)
        /\ history[i].cb = "panic"
        /\ history[i].invoked = 0
        /\ history[i].result = Some(Ok(1))

\* C3: with a closure that does not panic, the Result inspect_error returns
\* has the variant and the payload of the Result it was given.
C3_ReturnedUnchanged ==
    /\ \A i \in Calls :
         history[i].cb # "panic"
            => /\ history[i].result # None
               /\ history[i].result[1].tag = history[i].input.tag
               /\ history[i].result[1].val = history[i].input.val
    /\ (pc \in {"returned", "L66"} /\ cur.cb # "panic")
         => result = Some(cur.input)

C3_Witness ==
    /\ Len(history) = 2
    /\ history[1].input = Err(1)
    /\ history[1].cb = "noop"
    /\ history[1].result = Some(Err(1))
    /\ history[2].input = Ok(0)
    /\ history[2].cb = "noop"
    /\ history[2].result = Some(Ok(0))

\* C4: when the closure panics on an Err(e), the panic leaves inspect_error:
\* the call hands no Result back (control never reaches line 77 or the
\* caller's next line) and the program is unwinding.
C4_PanicPropagates ==
    /\ \A i \in Calls :
         (history[i].input.tag = "Err" /\ history[i].cb = "panic")
            => /\ history[i].result = None
               /\ history[i].fnret = None
               /\ history[i].invoked = 1
               /\ EventsOf(i, {"ret"}) = {}
               /\ EventsOf(i, {"panic"}) # {}
               /\ i = Len(history)
               /\ pc = "panicked"
    /\ (InCall /\ cur.input.tag = "Err" /\ cur.cb = "panic")
         => pc \in {"L73", "L74"}

C4_Witness ==
    /\ pc = "panicked"
    /\ history[Len(history)].input = Err(0)
    /\ history[Len(history)].cb = "panic"
    /\ history[Len(history)].result = None
    /\ result = None

\* C5: on an Err(e) the closure runs before inspect_error returns and never
\* after it: every return of such a call is preceded by the closure's run
\* and followed by none, and at the return the closure's writes are there
\* (the recorded value is e, the printed line is the last of stderr).
C5_ClosureRunsBeforeReturn ==
    /\ \A j \in DOMAIN events :
         (events[j].ev = "ret" /\ InputOf(events[j].k).tag = "Err")
            => /\ \E i \in EventsOf(events[j].k, {"cb"}) : i < j
               /\ \A i \in EventsOf(events[j].k, {"cb", "panic"}) : i < j
    /\ (pc = "returned" /\ cur.input.tag = "Err")
         => /\ cur.cb = "record" => output = Some(cur.input.val)
            /\ cur.cb = "eprintln" => stderr = Append(cur.err0, cur.input.val)
            /\ inspect = "moved"

C5_Witness ==
    /\ pc = "returned"
    /\ cur.input = Err(1)
    /\ cur.cb = "record"
    /\ cur.out0 = None
    /\ output = Some(1)
    /\ result = Some(Err(1))

\* C6: read_magic_number_from_db, which applies `?` to what inspect_error
\* returns, goes on with the success payload t and returns Ok(t) on an
\* Ok(t), with no trace of the closure, and returns the original Err(e) on
\* an Err(e), after the closure has run once.
C6_QuestionMarkChaining ==
    /\ \A i \in Calls :
         history[i].caller = "read_magic_number_from_db"
            => /\ history[i].input.tag = "Ok"
                    => /\ history[i].fnret = Some(Ok(history[i].input.val))
                       /\ history[i].invoked = 0
                       /\ history[i].out1 = history[i].out0
                       /\ history[i].err1 = history[i].err0
               /\ (history[i].input.tag = "Err" /\ history[i].cb # "panic")
                    => /\ history[i].fnret = Some(Err(history[i].input.val))
                       /\ history[i].invoked = 1
                       /\ \E r \in EventsOf(i, {"ret"}) :
                              \E c \in EventsOf(i, {"cb"}) : c < r
    /\ (pc = "L66" /\ cur.caller = "read_magic_number_from_db")
         => /\ cur.input.tag = "Ok"
            /\ magic_number = Some(cur.input.val)

C6_Witness ==
    /\ Len(history) = 2
    /\ history[1].caller = "read_magic_number_from_db"
    /\ history[1].input = Err(1)
    /\ history[1].cb = "eprintln"
    /\ history[1].fnret = Some(Err(1))
    /\ history[1].err1 = <<1>>
    /\ history[2].caller = "read_magic_number_from_db"
    /\ history[2].input = Ok(1)
    /\ history[2].fnret = Some(Ok(1))

\* C7: when the Result a call returned is fed into a second call with the
\* same closure logic, both calls return the same Result, equal to the
\* original input, and the closure has run twice in total on an Err and not
\* at all on an Ok.
C7_TwiceInSuccession ==
    \A i \in Calls :
        history[i].chained
           => /\ i > 1
              /\ history[i].cb = history[i - 1].cb
              /\ history[i].result = history[i - 1].result
              /\ history[i].result = Some(history[i - 1].input)
              /\ history[i - 1].invoked + history[i].invoked =
                    IF history[i - 1].input.tag = "Err" THEN 2 ELSE 0

C7_Witness ==
    /\ Len(history) = 2
    /\ history[2].chained
    /\ history[1].input = Err(1)
    /\ history[1].cb = "eprintln"
    /\ history[2].result = Some(Err(1))
    /\ history[2].err1 = <<1, 1>>

\* C8: inspect_error has no failure of its own. A call ends without a Result
\* only by a panic of the closure on an Err; every other call returns; and
\* no line of the function can get stuck.
C8_NoOwnErrorPath ==
    /\ \A i \in Calls :
         history[i].result = None
            <=> (history[i].input.tag = "Err" /\ history[i].cb = "panic")
    /\ \A i \in Calls :
         history[i].result = None
            => /\ history[i].invoked = 1
               /\ EventsOf(i, {"panic"}) # {}
    /\ pc = "panicked"
         => /\ history[Len(history)].result = None
            /\ events[Len(events)].ev = "panic"
    /\ pc \in {"L73", "L74", "L77"} => ENABLED (Match \/ Invoke \/ Return)

C8_Witness ==
    /\ Len(history) = 2
    /\ history[1].input = Err(0)
    /\ history[1].cb = "noop"
    /\ history[1].result = Some(Err(0))
    /\ history[2].input = Err(0)
    /\ history[2].cb = "panic"
    /\ history[2].result = None
    /\ pc = "panicked"

\* C9: a call on Ok(t) leaves what the closure would write as it was: the
\* captured variable and stderr are, throughout the call and after it, what
\* they were when the call began (unset stays unset).
C9_OkLeavesCapturedStateAlone ==
    /\ \A i \in Calls :
         history[i].input.tag = "Ok"
            => /\ history[i].out1 = history[i].out0
               /\ history[i].err1 = history[i].err0
    /\ (InCall /\ cur.input.tag = "Ok")
         => /\ output = cur.out0
            /\ stderr = cur.err0

C9_Witness ==
    \E i \in Calls :
        /\ history[i].input = Ok(1)
        /\ history[i].cb = "record"
        /\ history[i].out0 = None
        /\ history[i].out1 = None
        /\ history[i].result = Some(Ok(1))

\* C10: calls keep no state. Whenever no call is in progress and no closure
\* has panicked, the closure runs so far are as many as the calls on an Err,
\* each of those calls having run it once; and every call that returned,
\* returned its own input, whatever came before it.
C10_CallsIndependent ==
    /\ pc = "caller"
         => /\ Cardinality({j \in DOMAIN events : events[j].ev = "cb"})
                 = Cardinality({i \in Calls : history[i].input.tag = "Err"})
            /\ \A i \in Calls :
                 history[i].invoked = IF history[i].input.tag = "Err" THEN 1 ELSE 0
    /\ \A i \in Calls :
         history[i].result # None => history[i].result = Some(history[i].input)
    /\ \A i, j \in Calls :
         (history[i].input = history[j].input
             /\ history[i].result # None /\ history[j].result # None)
            => history[i].result = history[j].result

C10_Witness ==
    /\ pc = "caller"
    /\ Len(history) = 2
    /\ history[1].input = Err(0)
    /\ history[2].input = Ok(1)
    /\ ~history[2].chained
    /\ history[2].result = Some(Ok(1))
    /\ Cardinality({j \in DOMAIN events : events[j].ev = "cb"}) = 1

====
